---- MODULE Spec2Model ----
(***************************************************************************)
(* Model of the WebRTC signaling / call-control server of src/index.js     *)
(* (the live program, lines 14-489).  Every socket.io event handler, the   *)
(* no-answer timer callback and the 5 s monitoring interval are one atomic *)
(* action each: node runs them to completion on a single event loop.       *)
(*                                                                         *)
(* socket.io semantics the handlers rely on:                               *)
(*  - socket.disconnect() on a connected socket marks it disconnected and  *)
(*    runs its 'disconnect' listeners synchronously, before returning; on  *)
(*    a socket that is already disconnected it does nothing;               *)
(*  - socket.emit on a disconnected socket reaches nobody;                 *)
(*  - a disconnected socket never reconnects: a client that comes back is  *)
(*    a new socket with a new id.                                          *)
(***************************************************************************)
EXTENDS Integers, Sequences, FiniteSets, TLC

\* ------------------------------------------------------------- universe
MaxSockets == 3
MaxQueue == 2
MaxSignals == 2

Sockets == 1 .. MaxSockets
NoSocket == 0
\* 'unknown' is the id the disconnect handler falls back to (line 426); it is
\* also a user id a client may register with.
Users == {"A", "B", "unknown"}
UserOrder == <<"A", "B", "unknown">>
NoUser == "undefined"
CallIds == {"c1", "c2"}
CallOrder == <<"c1", "c2">>
Null == "null"
\* status strings a client may send in user_status (any string is accepted)
ClientStatuses == {"in-call", "away"}

NoAnswerDelay == 60000
OfferStallLimit == 10000
IceTtl == 60000
SweepInterval == 5000

VARIABLES
  connectedUsers,   \* Map userId -> socket            (line 15)
  activeCalls,      \* Map callId -> call record       (line 16)
  pendingSignals,   \* Map userId -> [{event,data}]    (line 17)
  userStatus,       \* Map userId -> {status, currentCallId} (line 18)
  callTimeouts,     \* Map callId -> timer             (line 19)
  callStates,       \* Map callId -> call state        (line 20)
  sockConnected,    \* socket.connected of every socket
  sockUser,         \* socket.userId of every socket   (line 93)
  out,              \* the events emitted by the last handler, in order
  sigCount,         \* number of signaling events accepted so far
  sigLog,           \* accepted signaling events, in acceptance order
  received          \* per addressed user: signaling payloads that reached it

vars == <<connectedUsers, activeCalls, pendingSignals, userStatus, callTimeouts,
          callStates, sockConnected, sockUser, out, sigCount, sigLog,
          received>>

\* absent map entries
NoStatus == [status |-> "(unset)", currentCallId |-> Null]
NoCall == [exists |-> FALSE]
NoState == [exists |-> FALSE]
NoTimer == [armed |-> FALSE]

\* an outbound event payload
Msg(ev, callId, userId, to, body) ==
  [ev |-> ev, callId |-> callId, userId |-> userId, to |-> to, body |-> body]

\* The server's tables and sockets as one value, threaded through a handler.
Cur ==
  [cu |-> connectedUsers, ac |-> activeCalls, ps |-> pendingSignals,
   us |-> userStatus, ct |-> callTimeouts, cs |-> callStates,
   so |-> sockConnected, su |-> sockUser, out |-> <<>>]

\* ------------------------------------------------------------- utilities
\* socket.emit(event, data): recorded with whether the socket was connected
Emit(st, s, m) ==
  [st EXCEPT !.out = Append(@, [sock |-> s, live |-> st.so[s], ev |-> m.ev,
                                  callId |-> m.callId, userId |-> m.userId,
                                  to |-> m.to, body |-> m.body])]

getUserSocket(st, userId) == st.cu[userId]

getUserStatus(st, userId) ==
  IF st.us[userId] = NoStatus
    THEN [status |-> "available", currentCallId |-> Null]
    ELSE st.us[userId]

\* setUserStatus that keeps the stored currentCallId when it is called without
\* one
setUserStatusKeepsCall(st, userId, status, currentCallId) ==
  [st EXCEPT !.us[userId] =
     [status |-> status,
      currentCallId |-> IF currentCallId = Null THEN st.us[userId].currentCallId
                        ELSE currentCallId]]

setUserStatus(st, userId, status, currentCallId) ==
  [st EXCEPT !.us[userId] = [status |-> status, currentCallId |-> currentCallId]]

queueSignal(st, userId, m) ==
  [st EXCEPT !.ps[userId] = Append(@, m)]

RECURSIVE EmitAll(_, _, _)
EmitAll(st, s, ms) ==
  IF ms = <<>> THEN st ELSE EmitAll(Emit(st, s, Head(ms)), s, Tail(ms))

\* deliverPendingSignals without the pendingSignals.delete of line 53
deliverPendingSignalsKeepsQueue(st, userId, s) ==
  EmitAll(st, s, st.ps[userId])

deliverPendingSignals(st, userId, s) ==
  [EmitAll(st, s, st.ps[userId]) EXCEPT !.ps[userId] = <<>>]

clearCallTimeout(st, callId) ==
  [st EXCEPT !.ct[callId] = NoTimer]

\* setCallTimeout without the clearCallTimeout of line 65, leaving a timer
\* that is already pending in charge of the call id
setCallTimeoutKeepsPending(st, callId, callerSocket, callerId, receiverId) ==
  IF st.ct[callId] # NoTimer THEN st
  ELSE [st EXCEPT !.ct[callId] =
          [armed |-> TRUE, callerSocket |-> callerSocket, callerId |-> callerId,
           receiverId |-> receiverId, remaining |-> NoAnswerDelay]]

\* the closure of lines 169-182 keeps callerSocket, callerId and receiverId;
\* `remaining` is the time left until the timer fires
setCallTimeout(st, callId, callerSocket, callerId, receiverId) ==
  [clearCallTimeout(st, callId) EXCEPT !.ct[callId] =
     [armed |-> TRUE, callerSocket |-> callerSocket, callerId |-> callerId,
      receiverId |-> receiverId, remaining |-> NoAnswerDelay]]

\* array.filter(id => id !== userId)
RECURSIVE Without(_, _)
Without(seq, x) ==
  IF seq = <<>> THEN <<>>
  ELSE IF Head(seq) = x THEN Without(Tail(seq), x)
  ELSE <<Head(seq)>> \o Without(Tail(seq), x)

Includes(seq, x) == \E i \in 1 .. Len(seq) : seq[i] = x

\* Object.values(call.participantSockets).forEach(sock => sock.emit(ev, ..))
RECURSIVE EmitToBound(_, _, _, _, _)
EmitToBound(st, socks, order, skip, m) ==
  IF order = <<>> THEN st
  ELSE LET uid == Head(order)
           st1 == IF socks[uid] # NoSocket /\ uid # skip
                    THEN Emit(st, socks[uid], m) ELSE st
       IN EmitToBound(st1, socks, Tail(order), skip, m)

\* ------------------------------------------------------------- disconnect
\* body of the for-loop of lines 430-449 for one call
DisconnectFromCall(st, callId, userId) ==
  LET call == st.ac[callId] IN
  IF call = NoCall \/ ~Includes(call.participants, userId) THEN st
  ELSE
    LET parts == Without(call.participants, userId)
        socks == [call.participantSockets EXCEPT ![userId] = NoSocket]
        st1 == [st EXCEPT !.ac[callId].participants = parts,
                          !.ac[callId].participantSockets = socks]
        st2 == EmitToBound(st1, socks, UserOrder, NoUser,
                 Msg("call_ended", callId, userId, NoUser, "Participant disconnected"))
        st3 == setUserStatus(st2, userId, "offline", Null)
    IN IF parts = <<>>
         THEN [st3 EXCEPT !.ac[callId] = NoCall, !.cs[callId] = NoState]
         ELSE st3

RECURSIVE DisconnectCalls(_, _, _)
DisconnectCalls(st, order, userId) ==
  IF order = <<>> THEN st
  ELSE DisconnectCalls(DisconnectFromCall(st, Head(order), userId), Tail(order), userId)

\* socket.on('disconnect', ...) of socket s
OnDisconnect(st, s) ==
  LET userId == IF st.su[s] = NoUser THEN "unknown" ELSE st.su[s]
      st1 == [st EXCEPT !.cu[userId] = NoSocket]
  IN DisconnectCalls(st1, CallOrder, userId)

\* socket.io: socket.disconnect() / transport close of socket s
CloseSocket(st, s) ==
  IF st.so[s] THEN OnDisconnect([st EXCEPT !.so[s] = FALSE], s) ELSE st

\* ------------------------------------------------------------- register
ReplaceExisting(st, s, userId) ==
  LET existingSocket == getUserSocket(st, userId) IN
  IF existingSocket # NoSocket /\ existingSocket # s
    THEN CloseSocket(Emit(st, existingSocket,
           Msg("force_disconnect", Null, NoUser, NoUser, "New connection established")),
           existingSocket)
    ELSE st

RECURSIVE AttachToCalls(_, _, _, _)
AttachToCalls(st, order, userId, s) ==
  IF order = <<>> THEN st
  ELSE LET callId == Head(order)
           call == st.ac[callId]
           st1 == IF call # NoCall /\ Includes(call.participants, userId)
                     /\ call.participantSockets[userId] = NoSocket
                    THEN [st EXCEPT !.ac[callId].participantSockets[userId] = s]
                    ELSE st
       IN AttachToCalls(st1, Tail(order), userId, s)

OnRegister(st, s, userId) ==
  LET st1 == ReplaceExisting(st, s, userId)
      st2 == [st1 EXCEPT !.cu[userId] = s, !.su[s] = userId]
      st3 == setUserStatus(st2, userId, "available", Null)
      st4 == Emit(st3, s, Msg("registered", Null, NoUser, NoUser, "success"))
      st5 == AttachToCalls(st4, CallOrder, userId, s)
  IN deliverPendingSignals(st5, userId, s)

OnRegisterInvalid(st, s) ==
  Emit(st, s, Msg("error", Null, NoUser, NoUser, "Invalid user ID"))

\* ------------------------------------------------------------- user_status
OnUserStatus(st, s, userId, status) ==
  IF st.su[s] = userId THEN setUserStatus(st, userId, status, Null) ELSE st

\* ------------------------------------------------------------- call_initiate
OnCallInitiateInvalid(st, s) ==
  Emit(st, s, Msg("error", Null, NoUser, NoUser, "Invalid call data"))

IsBusy(receiverStatus) == receiverStatus.status = "busy"

NewCall(callerId, receiverId, callerSocket) ==
  [exists |-> TRUE, callerId |-> callerId, receiverId |-> receiverId,
   participants |-> <<callerId, receiverId>>,
   participantSockets |-> [u \in Users |-> IF u = callerId THEN callerSocket ELSE NoSocket],
   status |-> "initiated"]

NewCallState(callerId, receiverId) ==
  [exists |-> TRUE, status |-> "initiated", callerId |-> callerId,
   receiverId |-> receiverId, offerAttempts |-> 0, sinceLastOffer |-> 0,
   iceCandidates |-> [u \in {callerId, receiverId} |-> <<>>]]

\* lines 184-197
NotifyReceiver(st, callId, callerId, receiverId, callerSocket) ==
  LET receiverSocket == getUserSocket(st, receiverId)
      data == Msg("incoming_call", callId, callerId, receiverId, "")
  IN IF receiverSocket # NoSocket
       THEN Emit(Emit(setUserStatus(st, receiverId, "ringing", callId),
                      receiverSocket, data),
                 callerSocket, Msg("call_ringing", callId, receiverId, NoUser, ""))
       ELSE queueSignal(st, receiverId, data)

\* call_initiate with the setUserStatus(callerId, 'busy', callId) of line 166
\* ahead of the caller check of lines 123-127
OnCallInitiateMarksCallerFirst(st, s, callId, callerId, receiverId) ==
  LET callerSocket == getUserSocket(st, callerId)
      st0 == setUserStatus(st, callerId, "busy", callId)
  IN
  IF callerSocket = NoSocket
    THEN Emit(st0, s, Msg("error", Null, NoUser, NoUser, "Caller not connected"))
  ELSE IF IsBusy(getUserStatus(st, receiverId))
    THEN Emit(st, callerSocket, Msg("call_busy", callId, receiverId, NoUser, ""))
  ELSE
    LET st1 == [st0 EXCEPT !.ac[callId] = NewCall(callerId, receiverId, callerSocket),
                           !.cs[callId] = NewCallState(callerId, receiverId)]
        st3 == setCallTimeout(st1, callId, callerSocket, callerId, receiverId)
    IN NotifyReceiver(st3, callId, callerId, receiverId, callerSocket)

OnCallInitiate(st, s, callId, callerId, receiverId) ==
  LET callerSocket == getUserSocket(st, callerId) IN
  IF callerSocket = NoSocket
    THEN Emit(st, s, Msg("error", Null, NoUser, NoUser, "Caller not connected"))
  ELSE IF IsBusy(getUserStatus(st, receiverId))
    THEN Emit(st, callerSocket, Msg("call_busy", callId, receiverId, NoUser, ""))
  ELSE
    LET st1 == [st EXCEPT !.ac[callId] = NewCall(callerId, receiverId, callerSocket),
                          !.cs[callId] = NewCallState(callerId, receiverId)]
        st2 == setUserStatus(st1, callerId, "busy", callId)
        st3 == setCallTimeout(st2, callId, callerSocket, callerId, receiverId)
    IN NotifyReceiver(st3, callId, callerId, receiverId, callerSocket)

\* the callback with the presence reset of lines 179-180 moved out of the
\* `if (call && call.status === 'initiated')` block
OnCallTimeoutResetsAlways(st, callId) ==
  LET t == st.ct[callId]
      st0 == [st EXCEPT !.ct[callId] = NoTimer]
      call == st0.ac[callId]
      st3 == IF call # NoCall /\ call.status = "initiated"
               THEN LET st1 == Emit(st0, t.callerSocket,
                                 Msg("call_timeout", callId, NoUser, NoUser, "No answer"))
                        st2 == EmitToBound(st1, call.participantSockets, UserOrder,
                                 NoUser,
                                 Msg("call_ended", callId, "system", NoUser, "Timeout"))
                    IN [st2 EXCEPT !.ac[callId] = NoCall, !.cs[callId] = NoState]
               ELSE st0
  IN setUserStatus(setUserStatus(st3, t.callerId, "available", Null),
                   t.receiverId, "available", Null)

\* the callback of lines 169-182, run by the timer of setCallTimeout (66-69)
OnCallTimeout(st, callId) ==
  LET t == st.ct[callId]
      st0 == [st EXCEPT !.ct[callId] = NoTimer]
      call == st0.ac[callId]
  IN IF call # NoCall /\ call.status = "initiated"
       THEN LET st1 == Emit(st0, t.callerSocket,
                         Msg("call_timeout", callId, NoUser, NoUser, "No answer"))
                st2 == EmitToBound(st1, call.participantSockets, UserOrder, NoUser,
                         Msg("call_ended", callId, "system", NoUser, "Timeout"))
                st3 == [st2 EXCEPT !.ac[callId] = NoCall, !.cs[callId] = NoState]
            IN setUserStatus(setUserStatus(st3, t.callerId, "available", Null),
                             t.receiverId, "available", Null)
       ELSE st0

\* ------------------------------------------------------------- call_accept
\* call_accept with the clearCallTimeout of line 219 ahead of the checks of
\* lines 203-217
OnCallAcceptClearsFirst(st, s, callId, receiverId) ==
  LET st0 == clearCallTimeout(st, callId)
      call == st0.ac[callId]
      receiverSocket == getUserSocket(st0, receiverId)
  IN
  IF call = NoCall
    THEN Emit(st0, s, Msg("error", Null, NoUser, NoUser, "Call not found"))
  ELSE IF receiverSocket = NoSocket
    THEN Emit(st0, s, Msg("error", Null, NoUser, NoUser, "Receiver not connected"))
  ELSE IF ~Includes(call.participants, receiverId)
    THEN Emit(st0, s, Msg("error", Null, NoUser, NoUser, "Invalid receiver"))
  ELSE
    LET socks == [call.participantSockets EXCEPT ![receiverId] = receiverSocket]
        st2 == [st0 EXCEPT !.ac[callId].participantSockets = socks,
                           !.ac[callId].status = "active"]
        st3 == setUserStatus(st2, receiverId, "in-call", callId)
        st4 == setUserStatus(st3, call.callerId, "in-call", callId)
        st5 == IF st4.cs[callId] # NoState
                 THEN [st4 EXCEPT !.cs[callId].status = "active"] ELSE st4
        st6 == EmitToBound(st5, socks, UserOrder, receiverId,
                 Msg("call_accepted", callId, receiverId, NoUser, ""))
    IN EmitToBound(st6, socks, UserOrder, NoUser,
         Msg("start_signaling", callId, NoUser, NoUser, ""))

OnCallAccept(st, s, callId, receiverId) ==
  LET call == st.ac[callId]
      receiverSocket == getUserSocket(st, receiverId)
  IN
  IF call = NoCall
    THEN Emit(st, s, Msg("error", Null, NoUser, NoUser, "Call not found"))
  ELSE IF receiverSocket = NoSocket
    THEN Emit(st, s, Msg("error", Null, NoUser, NoUser, "Receiver not connected"))
  ELSE IF ~Includes(call.participants, receiverId)
    THEN Emit(st, s, Msg("error", Null, NoUser, NoUser, "Invalid receiver"))
  ELSE
    LET st1 == clearCallTimeout(st, callId)
        socks == [call.participantSockets EXCEPT ![receiverId] = receiverSocket]
        st2 == [st1 EXCEPT !.ac[callId].participantSockets = socks,
                           !.ac[callId].status = "active"]
        st3 == setUserStatus(st2, receiverId, "in-call", callId)
        st4 == setUserStatus(st3, call.callerId, "in-call", callId)
        st5 == IF st4.cs[callId] # NoState
                 THEN [st4 EXCEPT !.cs[callId].status = "active"] ELSE st4
        st6 == EmitToBound(st5, socks, UserOrder, receiverId,
                 Msg("call_accepted", callId, receiverId, NoUser, ""))
    IN EmitToBound(st6, socks, UserOrder, NoUser,
         Msg("start_signaling", callId, NoUser, NoUser, ""))

\* ------------------------------------------------------------- call_reject
\* call_reject without the callStates.delete(callId) of line 266
OnCallRejectKeepsState(st, callId, userId) ==
  LET call == st.ac[callId] IN
  IF call = NoCall THEN st
  ELSE
    LET st1 == clearCallTimeout(st, callId)
        st2 == setUserStatus(st1, call.callerId, "available", Null)
        st3 == setUserStatus(st2, userId, "available", Null)
        callerSocket == getUserSocket(st3, call.callerId)
        st4 == IF callerSocket # NoSocket
                 THEN Emit(st3, callerSocket,
                        Msg("call_rejected", callId, userId, NoUser, ""))
                 ELSE st3
    IN [st4 EXCEPT !.ac[callId] = NoCall]

OnCallReject(st, callId, userId) ==
  LET call == st.ac[callId] IN
  IF call = NoCall THEN st
  ELSE
    LET st1 == clearCallTimeout(st, callId)
        st2 == setUserStatus(st1, call.callerId, "available", Null)
        st3 == setUserStatus(st2, userId, "available", Null)
        callerSocket == getUserSocket(st3, call.callerId)
        st4 == IF callerSocket # NoSocket
                 THEN Emit(st3, callerSocket,
                        Msg("call_rejected", callId, userId, NoUser, ""))
                 ELSE st3
    IN [st4 EXCEPT !.ac[callId] = NoCall, !.cs[callId] = NoState]

\* ------------------------------------------------------------- call_end
\* call_end with the clearCallTimeout and setUserStatus of lines 366-367 ahead
\* of the `if (!call) return` of lines 359-362
OnCallEndResetsFirst(st, callId, userId) ==
  LET call == st.ac[callId]
      st1 == clearCallTimeout(st, callId)
      st2 == setUserStatus(st1, userId, "available", Null)
  IN
  IF call = NoCall THEN st2
  ELSE
    LET st3 == EmitToBound(st2, call.participantSockets, UserOrder, userId,
                 Msg("call_ended", callId, userId, NoUser, "User ended the call"))
        parts == Without(call.participants, userId)
        st4 == [st3 EXCEPT !.ac[callId].participants = parts,
                           !.ac[callId].participantSockets[userId] = NoSocket]
    IN IF parts = <<>>
         THEN [st4 EXCEPT !.ac[callId] = NoCall, !.cs[callId] = NoState]
         ELSE st4

OnCallEnd(st, callId, userId) ==
  LET call == st.ac[callId] IN
  IF call = NoCall THEN st
  ELSE
    LET st1 == clearCallTimeout(st, callId)
        st2 == setUserStatus(st1, userId, "available", Null)
        st3 == EmitToBound(st2, call.participantSockets, UserOrder, userId,
                 Msg("call_ended", callId, userId, NoUser, "User ended the call"))
        parts == Without(call.participants, userId)
        st4 == [st3 EXCEPT !.ac[callId].participants = parts,
                           !.ac[callId].participantSockets[userId] = NoSocket]
    IN IF parts = <<>>
         THEN [st4 EXCEPT !.ac[callId] = NoCall, !.cs[callId] = NoState]
         ELSE st4

\* ------------------------------------------------------------- user_ready
OnUserReady(st, callId, userId) ==
  LET call == st.ac[callId] IN
  IF call = NoCall THEN st
  ELSE
    LET userSocket == getUserSocket(st, userId)
        socks == IF userSocket # NoSocket
                   THEN [call.participantSockets EXCEPT ![userId] = userSocket]
                   ELSE call.participantSockets
        st1 == [st EXCEPT !.ac[callId].participantSockets = socks]
        allReady == \A i \in 1 .. Len(call.participants) :
                      socks[call.participants[i]] # NoSocket
    IN IF allReady
         THEN EmitToBound(st1, socks, UserOrder, NoUser,
                Msg("start_signaling", callId, NoUser, NoUser, ""))
         ELSE st1

\* ------------------------------------------------------------- signaling
\* call.participantSockets[to] || getUserSocket(to)
TargetSocket(st, call, to) ==
  IF call.participantSockets[to] # NoSocket
    THEN call.participantSockets[to] ELSE getUserSocket(st, to)

\* lines 290-297, 314-321: deliver on the target socket when it is bound to
\* `to`, queue otherwise
Route(st, call, to, fwd, queued) ==
  LET targetSocket == TargetSocket(st, call, to) IN
  IF targetSocket # NoSocket /\ st.su[targetSocket] = to
    THEN Emit(st, targetSocket, fwd)
    ELSE queueSignal(st, to, queued)

OnWebrtcOffer(st, callId, from, to, sdp) ==
  LET call == st.ac[callId]
      callState == st.cs[callId]
      m == Msg("webrtc_offer", callId, from, NoUser, sdp)
  IN IF call = NoCall \/ callState = NoState THEN queueSignal(st, to, m)
     ELSE LET st1 == [st EXCEPT !.cs[callId].offerAttempts = @ + 1,
                                !.cs[callId].sinceLastOffer = 0]
          IN IF from = to THEN st1 ELSE Route(st1, call, to, m, m)

\* webrtc_answer without the reset of line 312
OnWebrtcAnswerKeepsAttempts(st, callId, from, to, sdp) ==
  LET call == st.ac[callId]
      callState == st.cs[callId]
      m == Msg("webrtc_answer", callId, from, NoUser, sdp)
  IN IF call = NoCall \/ callState = NoState THEN queueSignal(st, to, m)
     ELSE Route(st, call, to, m, m)

OnWebrtcAnswer(st, callId, from, to, sdp) ==
  LET call == st.ac[callId]
      callState == st.cs[callId]
      m == Msg("webrtc_answer", callId, from, NoUser, sdp)
  IN IF call = NoCall \/ callState = NoState THEN queueSignal(st, to, m)
     ELSE Route([st EXCEPT !.cs[callId].offerAttempts = 0], call, to, m, m)

\* the queued copy of line 347 keeps `to`
IceQueued(callId, from, to, candidate) ==
  Msg("ice_candidate", callId, from, to, candidate)

OnIceCandidate(st, callId, from, to, candidate) ==
  LET call == st.ac[callId]
      callState == st.cs[callId]
      m == Msg("ice_candidate", callId, from, NoUser, candidate)
  IN IF call = NoCall \/ callState = NoState THEN queueSignal(st, to, m)
     ELSE LET st1 == IF to \in DOMAIN callState.iceCandidates
                       THEN [st EXCEPT !.cs[callId].iceCandidates[to] =
                               Append(@, [from |-> from, candidate |-> candidate,
                                          age |-> 0])]
                       ELSE st
          IN Route(st1, call, to, m, IceQueued(callId, from, to, candidate))

\* ------------------------------------------------------------- clock
\* The code reads a stored time only in a difference with Date.now() (lines
\* 464 and 485) or as a setTimeout delay (line 182).  The model stores those
\* differences: sinceLastOffer = now - lastOfferTime, age = now - timestamp,
\* remaining = the delay left.  sinceLastOffer stops growing once it is past
\* OfferStallLimit, the only value it is compared with.
Older(d) == IF d > OfferStallLimit THEN d ELSE d + SweepInterval

RECURSIVE AgeAll(_)
AgeAll(list) ==
  IF list = <<>> THEN <<>>
  ELSE <<[Head(list) EXCEPT !.age = @ + SweepInterval]>> \o AgeAll(Tail(list))

\* SweepInterval elapses
Elapse(st) ==
  [st EXCEPT
     !.cs = [c \in CallIds |->
               IF st.cs[c] = NoState THEN NoState
               ELSE [st.cs[c] EXCEPT
                       !.sinceLastOffer = Older(@),
                       !.iceCandidates =
                          [u \in DOMAIN st.cs[c].iceCandidates |->
                             AgeAll(st.cs[c].iceCandidates[u])]]],
     !.ct = [c \in CallIds |->
               IF st.ct[c] = NoTimer THEN NoTimer
               ELSE [st.ct[c] EXCEPT !.remaining = @ - SweepInterval]]]

\* ------------------------------------------------------------- sweeper
OfferStalled(callState) ==
  /\ callState.status = "initiated"
  /\ callState.offerAttempts > 0
  /\ callState.sinceLastOffer > OfferStallLimit

\* the filter of line 485 with <= for <
RECURSIVE KeepFreshInclusive(_)
KeepFreshInclusive(list) ==
  IF list = <<>> THEN <<>>
  ELSE IF Head(list).age <= IceTtl
    THEN <<Head(list)>> \o KeepFreshInclusive(Tail(list))
    ELSE KeepFreshInclusive(Tail(list))

RECURSIVE KeepFresh(_)
KeepFresh(list) ==
  IF list = <<>> THEN <<>>
  ELSE IF Head(list).age < IceTtl
    THEN <<Head(list)>> \o KeepFresh(Tail(list))
    ELSE KeepFresh(Tail(list))

\* body of the for-loop of lines 458-488 for one call state
SweepCall(st, callId) ==
  LET callState == st.cs[callId] IN
  IF callState = NoState THEN st
  ELSE IF OfferStalled(callState)
    THEN LET callerSocket == getUserSocket(st, callState.callerId)
             st1 == IF callerSocket # NoSocket
                      THEN Emit(st, callerSocket, Msg("call_timeout", callId, NoUser,
                                  NoUser, "No answer from receiver"))
                      ELSE st
             st2 == [st1 EXCEPT !.ac[callId] = NoCall, !.cs[callId] = NoState]
         IN setUserStatus(setUserStatus(st2, callState.callerId, "available", Null),
                          callState.receiverId, "available", Null)
    ELSE [st EXCEPT !.cs[callId].iceCandidates =
            [u \in DOMAIN callState.iceCandidates |->
               KeepFresh(callState.iceCandidates[u])]]

RECURSIVE SweepCalls(_, _)
SweepCalls(st, order) ==
  IF order = <<>> THEN st ELSE SweepCalls(SweepCall(st, Head(order)), Tail(order))

\* one firing of the setInterval callback (lines 456-489), SweepInterval after
\* the previous one
OnSweep(st) == SweepCalls(Elapse(st), CallOrder)

\* ------------------------------------------------------------- actions
SignalEvents == {"webrtc_offer", "webrtc_answer", "ice_candidate"}

\* what the clients have seen: a signaling event emitted on a connected socket
\* reaches the user that socket is bound to
RECURSIVE Deliver(_, _, _)
Deliver(rcv, emitted, su) ==
  IF emitted = <<>> THEN rcv
  ELSE LET e == Head(emitted)
           rcv1 == IF e.ev \in SignalEvents /\ e.live /\ su[e.sock] \in Users
                     THEN [rcv EXCEPT ![su[e.sock]] = Append(@, e.body)]
                     ELSE rcv
       IN Deliver(rcv1, Tail(emitted), su)

Commit(st) ==
  /\ \A u \in Users : Len(st.ps[u]) <= MaxQueue
  /\ connectedUsers' = st.cu
  /\ activeCalls' = st.ac
  /\ pendingSignals' = st.ps
  /\ userStatus' = st.us
  /\ callTimeouts' = st.ct
  /\ callStates' = st.cs
  /\ sockConnected' = st.so
  /\ sockUser' = st.su
  /\ out' = st.out
  /\ received' = Deliver(received, st.out, st.su)

Init ==
  /\ connectedUsers = [u \in Users |-> NoSocket]
  /\ activeCalls = [c \in CallIds |-> NoCall]
  /\ pendingSignals = [u \in Users |-> <<>>]
  /\ userStatus = [u \in Users |-> NoStatus]
  /\ callTimeouts = [c \in CallIds |-> NoTimer]
  /\ callStates = [c \in CallIds |-> NoState]
  /\ sockConnected = [s \in Sockets |-> TRUE]
  /\ sockUser = [s \in Sockets |-> NoUser]
  /\ out = <<>>
  /\ sigCount = 0
  /\ sigLog = <<>>
  /\ received = [u \in Users |-> <<>>]

NoSignal == UNCHANGED <<sigCount, sigLog>>

\* Sockets that have neither registered nor closed are interchangeable: the
\* one with the lowest id speaks first (socket ids carry no meaning).
Used(s) == sockUser[s] # NoUser \/ ~sockConnected[s]
CanSend(s) == sockConnected[s] /\ \A t \in Sockets : t < s => Used(t)

\* these handlers never look at the socket the event came in on
SomeSocket == \E s \in Sockets : sockConnected[s]


Register(s, userId) ==
  /\ CanSend(s)
  /\ Commit(OnRegister(Cur, s, userId))
  /\ NoSignal

RegisterInvalid(s) ==
  /\ CanSend(s)
  /\ Commit(OnRegisterInvalid(Cur, s))
  /\ NoSignal

Disconnect(s) ==
  /\ CanSend(s)
  /\ Commit(CloseSocket(Cur, s))
  /\ NoSignal

UserStatus(s, userId, status) ==
  /\ CanSend(s)
  /\ Commit(OnUserStatus(Cur, s, userId, status))
  /\ NoSignal

CallInitiate(s, callId, callerId, receiverId) ==
  /\ CanSend(s)
  /\ Commit(OnCallInitiate(Cur, s, callId, callerId, receiverId))
  /\ NoSignal

CallInitiateInvalid(s) ==
  /\ CanSend(s)
  /\ Commit(OnCallInitiateInvalid(Cur, s))
  /\ NoSignal

CallAccept(s, callId, receiverId) ==
  /\ CanSend(s)
  /\ Commit(OnCallAccept(Cur, s, callId, receiverId))
  /\ NoSignal

CallReject(callId, userId) ==
  /\ SomeSocket
  /\ Commit(OnCallReject(Cur, callId, userId))
  /\ NoSignal

CallEnd(callId, userId) ==
  /\ SomeSocket
  /\ Commit(OnCallEnd(Cur, callId, userId))
  /\ NoSignal

UserReady(callId, userId) ==
  /\ SomeSocket
  /\ Commit(OnUserReady(Cur, callId, userId))
  /\ NoSignal

\* the k-th signaling event the server accepts carries the payload k
Accepted(ev, callId, from, to) ==
  /\ sigCount < MaxSignals
  /\ sigCount' = sigCount + 1
  /\ sigLog' = Append(sigLog, [ev |-> ev, callId |-> callId, from |-> from, to |-> to])

WebrtcOffer(callId, from, to) ==
  /\ SomeSocket
  /\ Accepted("webrtc_offer", callId, from, to)
  /\ Commit(OnWebrtcOffer(Cur, callId, from, to, sigCount + 1))

WebrtcAnswer(callId, from, to) ==
  /\ SomeSocket
  /\ Accepted("webrtc_answer", callId, from, to)
  /\ Commit(OnWebrtcAnswer(Cur, callId, from, to, sigCount + 1))

IceCandidate(callId, from, to) ==
  /\ SomeSocket
  /\ Accepted("ice_candidate", callId, from, to)
  /\ Commit(OnIceCandidate(Cur, callId, from, to, sigCount + 1))

CallTimeout(callId) ==
  /\ callTimeouts[callId] # NoTimer
  /\ callTimeouts[callId].remaining <= 0
  /\ Commit(OnCallTimeout(Cur, callId))
  /\ NoSignal

\* The interval fires; a timer that is due fires before time moves on.
Sweep ==
  /\ \A c \in CallIds : callTimeouts[c] # NoTimer => callTimeouts[c].remaining > 0
  /\ Commit(OnSweep(Cur))
  /\ NoSignal

\* ------------------------------------------------------------- specifications
\* Each specification lets the clients draw their events from the sets named
\* in it; the handlers are the same in all of them.  No specification lets a
\* user call itself.
AB == {"A", "B"}
One == {"c1"}
Two == 1 .. 2

\* the call life cycle: two sockets, two users, one call id
Next ==
  \/ \E s \in Two, u \in AB : Register(s, u)
  \/ \E s \in Two : RegisterInvalid(s)
  \/ \E s \in Two : Disconnect(s)
  \/ \E s \in Two, u \in AB, x \in ClientStatuses : UserStatus(s, u, x)
  \/ \E s \in Two, c \in One, a, b \in AB : a # b /\ CallInitiate(s, c, a, b)
  \/ \E s \in Two : CallInitiateInvalid(s)
  \/ \E s \in Two, c \in One, u \in AB : CallAccept(s, c, u)
  \/ \E c \in One, u \in AB : CallReject(c, u)
  \/ \E c \in One, u \in AB : CallEnd(c, u)
  \/ \E c \in One, u \in AB : UserReady(c, u)

Spec == Init /\ [][Next]_vars

\* the directory: every socket, every user id, no calls
NextDir ==
  \/ \E s \in Sockets, u \in Users : Register(s, u)
  \/ \E s \in Sockets : RegisterInvalid(s)
  \/ \E s \in Sockets : Disconnect(s)

SpecDir == Init /\ [][NextDir]_vars

\* signaling towards B: two sockets, two users, one call id
NextSig ==
  \/ \E s \in Two, u \in AB : Register(s, u)
  \/ \E s \in Two, c \in One, a, b \in AB : a # b /\ CallInitiate(s, c, a, b)
  \/ \E c \in One, a \in AB : WebrtcOffer(c, a, "B")
  \/ \E c \in One, a \in AB : WebrtcAnswer(c, a, "B")
  \/ \E c \in One, a \in AB : IceCandidate(c, a, "B")

SpecSig == Init /\ [][NextSig]_vars

\* two call ids: two sockets, two users
NextTwo ==
  \/ \E s \in Two, u \in AB : Register(s, u)
  \/ \E s \in Two, c \in CallIds, a, b \in AB : a # b /\ CallInitiate(s, c, a, b)
  \/ \E s \in Two, c \in CallIds, u \in AB : CallAccept(s, c, u)
  \/ \E c \in CallIds, u \in AB : CallEnd(c, u)

SpecTwo == Init /\ [][NextTwo]_vars

\* timers and the sweeper: two sockets, two users, one call id
NextTime ==
  \/ \E s \in Two, u \in AB : Register(s, u)
  \/ \E s \in Two : Disconnect(s)
  \/ \E s \in Two, c \in One, a, b \in AB : a # b /\ CallInitiate(s, c, a, b)
  \/ \E s \in Two, c \in One, u \in AB : CallAccept(s, c, u)
  \/ \E c \in One, u \in AB : CallEnd(c, u)
  \/ \E c \in One : CallTimeout(c)
  \/ Sweep

SpecTime == Init /\ [][NextTime]_vars

\* the sweeper at work: A on socket 1 calls B on socket 2 with one call id and
\* sends it offers and candidates
NextSweep ==
  \/ Register(1, "A")
  \/ Register(2, "B")
  \/ \E c \in One : CallInitiate(1, c, "A", "B")
  \/ \E c \in One : CallAccept(2, c, "B")
  \/ \E c \in One, a \in AB : WebrtcOffer(c, a, "B")
  \/ \E c \in One : WebrtcAnswer(c, "B", "A")
  \/ \E c \in One : IceCandidate(c, "A", "B")
  \/ \E c \in One : CallTimeout(c)
  \/ Sweep

SpecSweep == Init /\ [][NextSweep]_vars

\* the registry and the call-state table under every handler that writes
\* them: A on socket 1, B on socket 2, one call id, offers from A to B
NextTables ==
  \/ Register(1, "A")
  \/ Register(2, "B")
  \/ \E s \in Two : Disconnect(s)
  \/ \E c \in One, a, b \in AB : a # b /\ CallInitiate(1, c, a, b)
  \/ \E c \in One, u \in AB : CallAccept(2, c, u)
  \/ \E c \in One, u \in AB : CallReject(c, u)
  \/ \E c \in One, u \in AB : CallEnd(c, u)
  \/ \E c \in One : WebrtcOffer(c, "A", "B")
  \/ \E c \in One : CallTimeout(c)
  \/ Sweep

SpecTables == Init /\ [][NextTables]_vars

\* ------------------------------------------------------------- presence
Presence(u) == getUserStatus(Cur, u).status
PresenceAfter(u) ==
  IF userStatus'[u] = NoStatus THEN "available" ELSE userStatus'[u].status

\* u's presence names a call of the registry that has u among its participants
NamesLiveCall(u) ==
  /\ userStatus[u].currentCallId \in CallIds
  /\ activeCalls[userStatus[u].currentCallId] # NoCall
  /\ Includes(activeCalls[userStatus[u].currentCallId].participants, u)

\* ------------------------------------------------------------- C1
\* C1: every user id has at most one connected socket bound to it: no two
\* connected sockets carry the same userId, and a connected socket that carries
\* a user id is the one the directory maps that id to.
C1_OneLiveChannel ==
  \A u \in Users : \A s, t \in Sockets :
    /\ (sockConnected[s] /\ sockUser[s] = u /\ sockConnected[t] /\ sockUser[t] = u)
         => s = t
    /\ (sockConnected[s] /\ sockUser[s] = u /\ connectedUsers[u] # NoSocket)
         => connectedUsers[u] = s

\* ------------------------------------------------------------- C2
\* C2: a user whose presence is ringing or in-call has a currentCallId that
\* names a call of the registry with that user among its participants.
C2_PresenceNamesLiveCall ==
  \A u \in Users :
    Presence(u) \in {"ringing", "in-call"} => NamesLiveCall(u)

\* ------------------------------------------------------------- C3
\* C3: whenever a step removes a call from the registry, right after it the
\* caller, the receiver and every participant the call had are available or
\* offline.
WasIn(call, u) ==
  u = call.callerId \/ u = call.receiverId \/ Includes(call.participants, u)

C3_TerminalResetsPresence ==
  [][\A c \in CallIds :
       (activeCalls[c] # NoCall /\ activeCalls'[c] = NoCall)
         => \A u \in Users :
              WasIn(activeCalls[c], u) => PresenceAfter(u) \in {"available", "offline"}]_vars

\* ------------------------------------------------------------- observations
\* the positions of `emitted` at which event ev of call callId went out on
\* socket s while s was connected
Got(emitted, s, ev, callId) ==
  {i \in 1 .. Len(emitted) :
     /\ emitted[i].sock = s
     /\ emitted[i].live
     /\ emitted[i].ev = ev
     /\ emitted[i].callId = callId}

\* ------------------------------------------------------------- C4
\* C4: a call_initiate that names as receiver a user who is busy, or in-call in
\* an accepted call, sends call_busy to the initiator and changes nothing: no
\* record for the new call id, no timer, the receiver's presence as before.
Engaged(b) ==
  \/ Presence(b) = "busy"
  \/ /\ Presence(b) = "in-call"
     /\ NamesLiveCall(b)
     /\ activeCalls[userStatus[b].currentCallId].status = "active"

C4_EngagedReceiverGetsBusy ==
  [][\A s \in Two, c \in CallIds, a, b \in AB :
       (/\ a # b
        /\ Engaged(b)
        /\ connectedUsers[a] = s
        /\ activeCalls[c] = NoCall
        /\ CallInitiate(s, c, a, b))
       => /\ \E i \in Got(out', connectedUsers[a], "call_busy", c) :
               out'[i].userId = b
          /\ activeCalls'[c] = NoCall
          /\ callTimeouts' = callTimeouts
          /\ userStatus'[b] = userStatus[b]]_vars

\* ------------------------------------------------------------- C5
\* C5: when one party of an active call between two connected users sends
\* call_end for itself, the other party receives call_ended with that user id
\* and the reason "User ended the call", the call leaves the registry and both
\* are available.
ActiveBetween(c, u, v) ==
  /\ activeCalls[c] # NoCall
  /\ activeCalls[c].status = "active"
  /\ u # v
  /\ activeCalls[c].participants \in {<<u, v>>, <<v, u>>}
  /\ \A w \in {u, v} :
       /\ connectedUsers[w] # NoSocket
       /\ sockConnected[connectedUsers[w]]
       /\ sockUser[connectedUsers[w]] = w
       /\ activeCalls[c].participantSockets[w] = connectedUsers[w]

C5_EndByOneParty ==
  [][\A c \in CallIds, u, v \in AB :
       (ActiveBetween(c, u, v) /\ CallEnd(c, u))
       => /\ \E i \in Got(out', connectedUsers[v], "call_ended", c) :
               out'[i].userId = u /\ out'[i].body = "User ended the call"
          /\ activeCalls'[c] = NoCall
          /\ PresenceAfter(u) = "available"
          /\ PresenceAfter(v) = "available"]_vars

\* ------------------------------------------------------------- C6
\* C6: a registration of u on socket y while u is bound to another connected
\* socket x sends force_disconnect to x, closes x, answers registered on y and
\* binds u to y; and once a socket of u has been superseded, the binding of u
\* to its connected socket y is changed only by a register of u or by the close
\* of y, never by the close of any other socket.
WasSuperseded(u, y) ==
  \E x \in Sockets \ {y} : ~sockConnected[x] /\ sockUser[x] = u

C6_DuplicateRegistration ==
  [][/\ \A x, y \in Sockets, u \in Users :
          (/\ connectedUsers[u] = x
           /\ x # y
           /\ sockConnected[x]
           /\ Register(y, u))
          => /\ Got(out', x, "force_disconnect", Null) # {}
             /\ ~sockConnected'[x]
             /\ Got(out', y, "registered", Null) # {}
             /\ connectedUsers'[u] = y
     /\ \A y \in Sockets, u \in Users :
          (/\ connectedUsers[u] = y
           /\ sockConnected[y]
           /\ sockUser[y] = u
           /\ WasSuperseded(u, y)
           /\ sockConnected'[y]
           /\ ~ \E s \in Sockets : Register(s, u))
          => connectedUsers'[u] = y]_vars

\* ------------------------------------------------------------- C7
\* C7: when a user that is ringing or in-call in a call of the registry
\* registers again, its presence and currentCallId stay as they are, it stays a
\* participant and the call's socket for it becomes the registering socket.
C7_ReconnectKeepsCall ==
  [][\A s \in Sockets, u \in AB :
       (/\ Presence(u) \in {"ringing", "in-call"}
        /\ NamesLiveCall(u)
        /\ Register(s, u))
       => LET c == userStatus[u].currentCallId IN
          /\ userStatus'[u] = userStatus[u]
          /\ activeCalls'[c] # NoCall
          /\ Includes(activeCalls'[c].participants, u)
          /\ activeCalls'[c].participantSockets[u] = s]_vars

\* ------------------------------------------------------------- C8
\* C8: of two signaling events accepted in the order E1, E2 for the same sender
\* and target, the target never receives E2 before E1, whether they were
\* forwarded at once or delivered from the pending queue.  (The k-th accepted
\* event carries payload k.)
SamePair(k, l) ==
  /\ sigLog[k].from = sigLog[l].from
  /\ sigLog[k].to = sigLog[l].to

C8_AcceptanceOrderKept ==
  \A u \in Users : \A i, j \in 1 .. Len(received[u]) :
    (/\ i < j
     /\ sigLog[received[u][i]].to = u
     /\ SamePair(received[u][i], received[u][j]))
    => received[u][i] <= received[u][j]

\* ------------------------------------------------------------- C9
\* C9: every webrtc_offer, webrtc_answer and ice_candidate that reaches a
\* recipient carries the call id, the sender and the payload of an accepted
\* event of that name, and no `to`.
IsAccepted(e) ==
  /\ e.body \in 1 .. Len(sigLog)
  /\ sigLog[e.body].ev = e.ev
  /\ sigLog[e.body].callId = e.callId
  /\ sigLog[e.body].from = e.userId

C9_SignalsReachIntact ==
  \A i \in 1 .. Len(out) :
    (out[i].ev \in SignalEvents /\ out[i].live)
    => IsAccepted(out[i]) /\ out[i].to = NoUser

\* ------------------------------------------------------------- C10
\* C10: when a call_accept passes its checks on a call in status initiated,
\* every participant with a socket in the call gets exactly one start_signaling
\* from it, every such participant but the accepter gets exactly one
\* call_accepted before its start_signaling, and the accepter gets no
\* call_accepted.
AcceptPasses(c, b) ==
  /\ activeCalls[c] # NoCall
  /\ connectedUsers[b] # NoSocket
  /\ Includes(activeCalls[c].participants, b)

C10_AcceptNotifiesOnce ==
  [][\A s \in Sockets, c \in CallIds, b \in AB :
       (/\ AcceptPasses(c, b)
        /\ activeCalls[c].status = "initiated"
        /\ CallAccept(s, c, b))
       => \A p \in Users :
            (/\ Includes(activeCalls'[c].participants, p)
             /\ activeCalls'[c].participantSockets[p] # NoSocket)
            => LET x == activeCalls'[c].participantSockets[p]
                   started == Got(out', x, "start_signaling", c)
                   accepted == Got(out', x, "call_accepted", c)
               IN /\ Cardinality(started) = 1
                  /\ IF p = b THEN accepted = {}
                     ELSE /\ Cardinality(accepted) = 1
                          /\ \A i \in accepted, j \in started : i < j]_vars

\* ------------------------------------------------------------- C11
\* C11: the caller of a call never receives start_signaling for it before it
\* has received call_accepted for it.  Only call_accept sends call_accepted,
\* and it makes the record active in the same step: while a record is still
\* initiated its caller has received no call_accepted for it, so no handler
\* may have just sent the caller a start_signaling for it.
Reached(emitted, su, u, ev, callId) ==
  {i \in 1 .. Len(emitted) :
     /\ emitted[i].live
     /\ su[emitted[i].sock] = u
     /\ emitted[i].ev = ev
     /\ emitted[i].callId = callId}

SentTo(u, ev, callId) == Reached(out, sockUser, u, ev, callId)

C11_AcceptedBeforeSignaling ==
  \A c \in CallIds :
    (activeCalls[c] # NoCall /\ activeCalls[c].status = "initiated")
    => SentTo(activeCalls[c].callerId, "start_signaling", c) = {}

\* ------------------------------------------------------------- C12
\* C12: a call that is created and afterwards not accepted, rejected or ended
\* runs into its no-answer timer: the caller receives call_timeout "No answer",
\* every participant with a socket in the call receives call_ended from
\* "system" with reason "Timeout", the record leaves the registry and caller
\* and receiver are available.  (call_accept, call_reject and call_end clear
\* the timer of a call they find, so a timer that fires belongs to a call none
\* of them has handled.)
TimeoutToCaller(c) ==
  \E i \in Got(out', callTimeouts[c].callerSocket, "call_timeout", c) :
    out'[i].body = "No answer"

TimeoutToBound(c) ==
  activeCalls[c] # NoCall =>
    \A p \in Users :
      activeCalls[c].participantSockets[p] # NoSocket
      => \E i \in Got(out', activeCalls[c].participantSockets[p], "call_ended", c) :
           out'[i].userId = "system" /\ out'[i].body = "Timeout"

C12_NoAnswerTimeout ==
  [][\A c \in CallIds :
       (callTimeouts[c] # NoTimer /\ CallTimeout(c))
       => /\ TimeoutToCaller(c)
          /\ TimeoutToBound(c)
          /\ activeCalls'[c] = NoCall
          /\ PresenceAfter(callTimeouts[c].callerId) = "available"
          /\ PresenceAfter(callTimeouts[c].receiverId) = "available"]_vars

\* ------------------------------------------------------------- C13
\* C13: a no-answer timer is armed for a call id only while that call is in
\* the registry with status initiated.
C13_TimerOnlyWhileInitiated ==
  \A c \in CallIds :
    callTimeouts[c] # NoTimer
    => activeCalls[c] # NoCall /\ activeCalls[c].status = "initiated"

\* ------------------------------------------------------------- C14
\* C14: when the no-answer timer of a call id fires and the registry has no
\* record for the id, or a record that is not initiated, nothing happens: the
\* directory, presence, registry, call states and pending queues stay as they
\* are and nothing is emitted.
LateTimer(c) ==
  /\ callTimeouts[c] # NoTimer
  /\ activeCalls[c] = NoCall \/ activeCalls[c].status # "initiated"

C14_LateTimerIsNoOp ==
  [][\A c \in CallIds :
       (LateTimer(c) /\ CallTimeout(c))
       => /\ UNCHANGED <<connectedUsers, userStatus, activeCalls, callStates,
                         pendingSignals>>
          /\ out' = <<>>]_vars

\* the timer of a call that has left the registry is due while its caller is
\* not available
C14_LateTimerDue ==
  \E c \in CallIds :
    /\ LateTimer(c)
    /\ callTimeouts[c].remaining <= 0
    /\ Presence(callTimeouts[c].callerId) # "available"

\* ------------------------------------------------------------- C15
\* C15: a call_initiate that passes its checks for a call id the registry
\* already holds replaces the record: the id then has one record, initiated,
\* with the new caller and receiver as participants, its call state has
\* offerAttempts 0, and the only timer of the id is the one just armed for the
\* new record, with the full delay ahead of it.
Reinitiate(c, a, b) ==
  /\ activeCalls[c] # NoCall
  /\ connectedUsers[a] # NoSocket
  /\ ~IsBusy(getUserStatus(Cur, b))

C15_ReinitiateReplaces ==
  [][\A s \in Two, c \in CallIds, a, b \in AB :
       (a # b /\ Reinitiate(c, a, b) /\ CallInitiate(s, c, a, b))
       => /\ activeCalls'[c] # NoCall
          /\ activeCalls'[c].status = "initiated"
          /\ activeCalls'[c].callerId = a
          /\ activeCalls'[c].receiverId = b
          /\ activeCalls'[c].participants = <<a, b>>
          /\ callStates'[c] # NoState
          /\ callStates'[c].status = "initiated"
          /\ callStates'[c].offerAttempts = 0
          /\ callTimeouts'[c] =
               [armed |-> TRUE, callerSocket |-> connectedUsers[a], callerId |-> a,
                receiverId |-> b, remaining |-> NoAnswerDelay]]_vars

\* a call id whose timer has run for a while can be initiated again, by a
\* user other than its caller, towards its caller
C15_StaleRecordReusable ==
  \E c \in CallIds, a, b \in AB :
    /\ a # b
    /\ Reinitiate(c, a, b)
    /\ activeCalls[c].callerId = b
    /\ callTimeouts[c] # NoTimer
    /\ callTimeouts[c].remaining < NoAnswerDelay

\* ------------------------------------------------------------- C16
\* C16: every active call record has at least two participants, and each of
\* its participants is in-call with that call as currentCallId.
C16_ActiveCallShape ==
  \A c \in CallIds :
    (activeCalls[c] # NoCall /\ activeCalls[c].status = "active")
    => /\ Len(activeCalls[c].participants) >= 2
       /\ \A i \in 1 .. Len(activeCalls[c].participants) :
            userStatus[activeCalls[c].participants[i]] =
              [status |-> "in-call", currentCallId |-> c]

\* ------------------------------------------------------------- C17
\* C17: every socket the directory holds for a user id is connected and has
\* that user id as its userId.
C17_DirectoryEntriesOwnSocket ==
  \A u \in Users :
    connectedUsers[u] # NoSocket
    => sockConnected[connectedUsers[u]] /\ sockUser[connectedUsers[u]] = u

\* ------------------------------------------------------------- C18
\* C18: in every call record, only participants have a socket in
\* participantSockets.
C18_OnlyParticipantsBound ==
  \A c \in CallIds : \A u \in Users :
    (activeCalls[c] # NoCall /\ activeCalls[c].participantSockets[u] # NoSocket)
    => Includes(activeCalls[c].participants, u)

\* ------------------------------------------------------------- C19
\* C19: when a user with queued signals registers, the registering socket is
\* sent `registered` and then every queued entry, unchanged and in the order
\* of queueing whatever its event, as the last emissions of the handler, and
\* the user's queue is empty afterwards.
IsQueued(e, s, m) ==
  /\ e.sock = s
  /\ e.live
  /\ e.ev = m.ev
  /\ e.callId = m.callId
  /\ e.userId = m.userId
  /\ e.to = m.to
  /\ e.body = m.body

C19_RegisterDrainsQueue ==
  [][\A s \in Sockets, u \in Users :
       (pendingSignals[u] # <<>> /\ Register(s, u))
       => LET queued == pendingSignals[u]
              k == Len(out') - Len(queued)
          IN /\ k >= 1
             /\ out'[k].ev = "registered"
             /\ out'[k].sock = s
             /\ out'[k].live
             /\ \A i \in 1 .. Len(queued) : IsQueued(out'[k + i], s, queued[i])
             /\ pendingSignals'[u] = <<>>]_vars

\* a registration has just delivered two queued entries of different events
C19_TwoKindsDelivered ==
  \E k \in 1 .. Len(out) :
    /\ out[k].ev = "registered"
    /\ Len(out) = k + 2
    /\ out[k + 1].ev # out[k + 2].ev
    /\ out[k + 1].sock = out[k].sock
    /\ pendingSignals[sockUser[out[k].sock]] = <<>>

\* ------------------------------------------------------------- C20
\* C20: a call_end or call_reject that names a call id the registry does not
\* hold changes no table (directory, presence, registry, call states, pending
\* queues, timers) and emits nothing.
C20_UnknownCallIgnored ==
  [][\A c \in CallIds, u \in Users :
       (activeCalls[c] = NoCall /\ (CallEnd(c, u) \/ CallReject(c, u)))
       => /\ UNCHANGED <<connectedUsers, userStatus, activeCalls, callStates,
                         pendingSignals, callTimeouts>>
          /\ out' = <<>>]_vars

\* a call id that is not in the registry while its timer is still armed and a
\* connected user is not available: what a reset ahead of the lookup would undo
C20_UnknownCallWithTraces ==
  \E c \in CallIds, u \in AB :
    /\ activeCalls[c] = NoCall
    /\ callTimeouts[c] # NoTimer
    /\ connectedUsers[u] # NoSocket
    /\ Presence(u) # "available"

\* ------------------------------------------------------------- C21
\* C21: a call_accept, sent by the accepter's own socket, on a record that is
\* already active only binds that socket for the accepter in the call and
\* sends start_signaling to that socket: no call_accepted, no start_signaling
\* to any other socket, no other change.
C21_AcceptOnActiveCall ==
  [][\A s \in Sockets, c \in CallIds, b \in AB :
       (/\ AcceptPasses(c, b)
        /\ activeCalls[c].status = "active"
        /\ connectedUsers[b] = s
        /\ CallAccept(s, c, b))
       => /\ activeCalls'[c] = [activeCalls[c] EXCEPT !.participantSockets[b] = s]
          /\ UNCHANGED <<connectedUsers, userStatus, callStates, callTimeouts,
                         pendingSignals>>
          /\ Got(out', s, "start_signaling", c) # {}
          /\ \A i \in 1 .. Len(out') :
               out'[i].ev = "start_signaling" /\ out'[i].sock = s]_vars

\* ------------------------------------------------------------- C22
\* C22: a call_accept for an unknown call, for an accepter without a socket in
\* the directory, or for an accepter that is not a participant of the call
\* sends one error to the sending socket and changes nothing: the record, its
\* status, the timer and every presence stay as they are.
AcceptError(c, b) ==
  IF activeCalls[c] = NoCall THEN "Call not found"
  ELSE IF connectedUsers[b] = NoSocket THEN "Receiver not connected"
  ELSE "Invalid receiver"

OneError(emitted, s, message) ==
  /\ Len(emitted) = 1
  /\ emitted[1].ev = "error"
  /\ emitted[1].sock = s
  /\ emitted[1].live
  /\ emitted[1].body = message

C22_FailedAcceptChangesNothing ==
  [][\A s \in Two, c \in CallIds, b \in AB :
       (~AcceptPasses(c, b) /\ CallAccept(s, c, b))
       => /\ OneError(out', s, AcceptError(c, b))
          /\ UNCHANGED <<connectedUsers, userStatus, activeCalls, callStates,
                         callTimeouts, pendingSignals>>]_vars

\* an initiated call with its timer armed and a user that cannot accept it:
\* one that is not connected, or one that is no longer a participant
C22_AcceptWouldFail ==
  \E c \in CallIds, b \in AB :
    /\ activeCalls[c] # NoCall
    /\ activeCalls[c].status = "initiated"
    /\ callTimeouts[c] # NoTimer
    /\ connectedUsers[b] # NoSocket
    /\ ~Includes(activeCalls[c].participants, b)

C24_SweepDropsOldCandidates ==
  [][Sweep
     => \A c \in CallIds :
          callStates'[c] # NoState
          => \A u \in DOMAIN callStates'[c].iceCandidates :
               \A i \in 1 .. Len(callStates'[c].iceCandidates[u]) :
                 callStates'[c].iceCandidates[u][i].age < IceTtl]_vars

\* a buffered candidate reaches the age IceTtl at the next run of the monitor
C24_CandidateAboutToExpire ==
  \E c \in CallIds :
    /\ callStates[c] # NoState
    /\ ~OfferStalled(callStates[c])
    /\ \E u \in DOMAIN callStates[c].iceCandidates :
         \E i \in 1 .. Len(callStates[c].iceCandidates[u]) :
           callStates[c].iceCandidates[u][i].age = IceTtl - SweepInterval
    /\ \A d \in CallIds : callTimeouts[d] # NoTimer => callTimeouts[d].remaining > 0

\* ------------------------------------------------------------- C25
\* C25: a user whose presence is available or offline has no currentCallId.
C25_IdlePresenceHasNoCall ==
  \A u \in Users :
    Presence(u) \in {"available", "offline"}
    => getUserStatus(Cur, u).currentCallId = Null

\* a user that a call of the registry still lists as caller or receiver is
\* available or offline
C25_IdleWhileCallListsUser ==
  \E c \in CallIds, u \in AB :
    /\ activeCalls[c] # NoCall
    /\ u \in {activeCalls[c].callerId, activeCalls[c].receiverId}
    /\ userStatus[u] # NoStatus
    /\ Presence(u) \in {"available", "offline"}

\* ------------------------------------------------------------- C26
\* u has a live channel: the directory maps u to a connected socket bound to u
HasLiveSocket(u) ==
  /\ connectedUsers[u] # NoSocket
  /\ sockConnected[connectedUsers[u]]
  /\ sockUser[connectedUsers[u]] = u

\* C26: a call_initiate of a caller with a live channel towards another user
\* who is not busy leaves a record with status initiated and participants
\* <<caller, receiver>>, the caller busy in the call, the no-answer timer
\* armed for NoAnswerDelay and call_ringing sent to the caller; a receiver
\* with a live channel is ringing in the call and receives incoming_call, and
\* for any other receiver incoming_call is appended to its queue.
C26_InitiateEffects ==
  [][\A s \in Two, c \in CallIds, a, b \in AB :
       (/\ a # b
        /\ HasLiveSocket(a)
        /\ ~IsBusy(getUserStatus(Cur, b))
        /\ CallInitiate(s, c, a, b))
       => /\ activeCalls'[c] # NoCall
          /\ activeCalls'[c].status = "initiated"
          /\ activeCalls'[c].participants = <<a, b>>
          /\ userStatus'[a] = [status |-> "busy", currentCallId |-> c]
          /\ callTimeouts'[c] # NoTimer
          /\ callTimeouts'[c].remaining = NoAnswerDelay
          /\ Got(out', connectedUsers[a], "call_ringing", c) # {}
          /\ IF HasLiveSocket(b)
               THEN /\ userStatus'[b] = [status |-> "ringing", currentCallId |-> c]
                    /\ Got(out', connectedUsers[b], "incoming_call", c) # {}
               ELSE pendingSignals'[b] =
                      Append(pendingSignals[b],
                             Msg("incoming_call", c, a, b, ""))]_vars

\* ------------------------------------------------------------- C27
\* C27: a signal of a known call from a to another user b, sent while the
\* directory maps b to a connected socket bound to b, is emitted on that
\* socket and not queued, whatever socket the call has cached for b.
C27_StaleCacheFallsBack ==
  [][\A c \in One, a \in AB :
       (/\ a # "B"
        /\ activeCalls[c] # NoCall
        /\ callStates[c] # NoState
        /\ HasLiveSocket("B")
        /\ \/ WebrtcOffer(c, a, "B")
           \/ WebrtcAnswer(c, a, "B")
           \/ IceCandidate(c, a, "B"))
       => /\ \E i \in 1 .. Len(out') :
               /\ out'[i].sock = connectedUsers["B"]
               /\ out'[i].live
               /\ out'[i].ev \in SignalEvents
               /\ out'[i].callId = c
          /\ pendingSignals'["B"] = pendingSignals["B"]]_vars

\* ------------------------------------------------------------- C28
\* C28: a webrtc_offer, webrtc_answer or ice_candidate of a known call whose
\* from and to are the same user emits nothing, queues nothing and leaves the
\* call-state table as it was.
C28_LoopbackDropped ==
  [][\A c \in One :
       (/\ activeCalls[c] # NoCall
        /\ callStates[c] # NoState
        /\ \/ WebrtcOffer(c, "B", "B")
           \/ WebrtcAnswer(c, "B", "B")
           \/ IceCandidate(c, "B", "B"))
       => /\ out' = <<>>
          /\ UNCHANGED <<pendingSignals, callStates>>]_vars

\* ------------------------------------------------------------- C29
\* C29: a call_end on a call of the registry by a user who is not among its
\* participants leaves the registry, the timers and every presence as they
\* were and emits no call_ended; by a participant it removes that user from
\* the participants and the bound sockets, makes the user available, emits
\* call_ended on every other bound socket and deletes the record exactly when
\* no participant is left.
C29_EndByOutsider ==
  [][\A c \in CallIds, u \in Users :
       (activeCalls[c] # NoCall /\ CallEnd(c, u))
       => IF ~Includes(activeCalls[c].participants, u)
            THEN /\ UNCHANGED <<activeCalls, callTimeouts, userStatus>>
                 /\ \A i \in 1 .. Len(out') : out'[i].ev # "call_ended"
            ELSE LET parts == Without(activeCalls[c].participants, u) IN
                 /\ PresenceAfter(u) = "available"
                 /\ \A v \in Users \ {u} :
                      activeCalls[c].participantSockets[v] # NoSocket
                      => \E i \in 1 .. Len(out') :
                           /\ out'[i].sock = activeCalls[c].participantSockets[v]
                           /\ out'[i].ev = "call_ended"
                           /\ out'[i].callId = c
                           /\ out'[i].userId = u
                 /\ activeCalls'[c] =
                      IF parts = <<>> THEN NoCall
                      ELSE [activeCalls[c] EXCEPT !.participants = parts,
                                                  !.participantSockets[u] = NoSocket]]_vars

\* ------------------------------------------------------------- C30
\* the call is initiated with an offer on record that will be more than
\* OfferStallLimit old when the monitor runs next
StallsAtNextSweep(c) ==
  /\ activeCalls[c] # NoCall
  /\ callStates[c] # NoState
  /\ callStates[c].status = "initiated"
  /\ callStates[c].offerAttempts > 0
  /\ callStates[c].sinceLastOffer + SweepInterval > OfferStallLimit

\* C30: a run of the monitor removes from the registry exactly the initiated
\* calls with an offer more than OfferStallLimit old, and for each of them the
\* caller receives call_timeout "No answer from receiver", every socket bound
\* in the call receives call_ended, and caller and receiver are available.
C30_StallEndsCall ==
  [][Sweep
     => \A c \in One :
          /\ (activeCalls[c] # NoCall /\ activeCalls'[c] = NoCall)
             <=> StallsAtNextSweep(c)
          /\ StallsAtNextSweep(c)
             => /\ \E i \in Got(out', connectedUsers[activeCalls[c].callerId],
                                "call_timeout", c) :
                     out'[i].body = "No answer from receiver"
                /\ \A u \in AB :
                     activeCalls[c].participantSockets[u] # NoSocket
                     => \E i \in 1 .. Len(out') :
                          /\ out'[i].sock = activeCalls[c].participantSockets[u]
                          /\ out'[i].ev = "call_ended"
                          /\ out'[i].callId = c
                /\ PresenceAfter(activeCalls[c].callerId) = "available"
                /\ PresenceAfter(activeCalls[c].receiverId) = "available"
                /\ callStates'[c] = NoState]_vars

\* ------------------------------------------------------------- C31
\* the call id has a record and a call state
Known(c) == activeCalls[c] # NoCall /\ callStates[c] # NoState

\* the kind of the latest signaling event the server has taken in for c
LastSignal(c) ==
  LET idx == {i \in 1 .. Len(sigLog) : sigLog[i].callId = c}
  IN IF idx = {} THEN "none"
     ELSE sigLog[CHOOSE i \in idx : \A j \in idx : j <= i].ev

\* C31: offerAttempts counts the webrtc_offer events the server has taken in
\* for a call since its creation or its last webrtc_answer, and sinceLastOffer
\* is the time since the latest of them: a call_initiate that creates the call
\* sets the count to 0, an offer adds 1 and restarts the clock, an answer sets
\* the count to 0, nothing else changes the count and only the passing of
\* time moves the clock; and a run of the monitor does not remove a call
\* whose latest signaling event is an answer.
C31_OfferCount ==
  [][\A c \in One :
       /\ \A a \in AB :
            (Known(c) /\ WebrtcOffer(c, a, "B"))
            => /\ callStates'[c].offerAttempts = callStates[c].offerAttempts + 1
               /\ callStates'[c].sinceLastOffer = 0
       /\ (Known(c) /\ WebrtcAnswer(c, "B", "A"))
          => /\ callStates'[c].offerAttempts = 0
             /\ callStates'[c].sinceLastOffer = callStates[c].sinceLastOffer
       /\ (CallInitiate(1, c, "A", "B") /\ callStates'[c] # NoState)
          => callStates'[c].offerAttempts = 0
       /\ (/\ Known(c)
           /\ callStates'[c] # NoState
           /\ sigLog' = sigLog
           /\ ~CallInitiate(1, c, "A", "B"))
          => /\ callStates'[c].offerAttempts = callStates[c].offerAttempts
             /\ callStates'[c].sinceLastOffer =
                  IF Sweep THEN Older(callStates[c].sinceLastOffer)
                  ELSE callStates[c].sinceLastOffer
       /\ (Sweep /\ Known(c) /\ LastSignal(c) = "webrtc_answer")
          => activeCalls'[c] # NoCall]_vars

\* an initiated call that got an offer and then an answer, with the offer
\* about to pass OfferStallLimit at the next run of the monitor
C31_AnsweredOfferGrowsOld ==
  \E c \in One :
    /\ Known(c)
    /\ callStates[c].status = "initiated"
    /\ Len(sigLog) = 2
    /\ sigLog[1].ev = "webrtc_offer" /\ sigLog[1].callId = c
    /\ sigLog[2].ev = "webrtc_answer" /\ sigLog[2].callId = c
    /\ callStates[c].sinceLastOffer + SweepInterval > OfferStallLimit
    /\ \A d \in CallIds : callTimeouts[d] # NoTimer => callTimeouts[d].remaining > 0

\* ------------------------------------------------------------- C32
\* C32: a user_ready on a call of the registry binds the sender's directory
\* socket in the call and, exactly when every participant then has a bound
\* socket, emits start_signaling once per participant, each on the socket
\* bound for a participant, and nothing else; on a call id the registry does
\* not hold it changes nothing and emits nothing.  (Stated for the states
\* where every directory entry is a connected socket bound to its user.)
C32_ReadyStartsSignaling ==
  [][\A c \in One, u \in AB :
       (/\ \A w \in AB : connectedUsers[w] # NoSocket => HasLiveSocket(w)
        /\ UserReady(c, u))
       => IF activeCalls[c] = NoCall
            THEN /\ out' = <<>>
                 /\ UNCHANGED <<connectedUsers, userStatus, activeCalls, callStates,
                                callTimeouts, pendingSignals>>
            ELSE LET call == activeCalls'[c]
                     allBound == \A i \in 1 .. Len(call.participants) :
                                   call.participantSockets[call.participants[i]]
                                     # NoSocket
                 IN /\ connectedUsers[u] # NoSocket
                       => call.participantSockets[u] = connectedUsers[u]
                    /\ IF allBound
                         THEN /\ Len(out') = Len(call.participants)
                              /\ \A i \in 1 .. Len(out') :
                                   /\ out'[i].ev = "start_signaling"
                                   /\ out'[i].callId = c
                                   /\ \E j \in 1 .. Len(call.participants) :
                                        out'[i].sock =
                                          call.participantSockets[call.participants[j]]
                         ELSE out' = <<>>]_vars

\* ------------------------------------------------------------- C33
\* C33: when the connected socket that the directory holds for u, bound to u,
\* closes, u leaves the directory and is offline, and in every call that had u
\* among its participants u is no longer a participant nor bound, call_ended
\* from u with reason "Participant disconnected" is emitted on every socket
\* bound for another user, and a call left with no participant is gone from
\* the registry and from the call-state table.
C33_CloseOfRegisteredSocket ==
  [][\A s \in Two, u \in AB :
       (HasLiveSocket(u) /\ connectedUsers[u] = s /\ Disconnect(s))
       => /\ connectedUsers'[u] = NoSocket
          /\ PresenceAfter(u) = "offline"
          /\ \A c \in One :
               (activeCalls[c] # NoCall /\ Includes(activeCalls[c].participants, u))
               => /\ IF Without(activeCalls[c].participants, u) = <<>>
                       THEN activeCalls'[c] = NoCall /\ callStates'[c] = NoState
                       ELSE /\ activeCalls'[c] # NoCall
                            /\ activeCalls'[c].participants =
                                 Without(activeCalls[c].participants, u)
                            /\ activeCalls'[c].participantSockets[u] = NoSocket
                  /\ \A v \in AB \ {u} :
                       activeCalls[c].participantSockets[v] # NoSocket
                       => \E i \in 1 .. Len(out') :
                            /\ out'[i].sock = activeCalls[c].participantSockets[v]
                            /\ out'[i].ev = "call_ended"
                            /\ out'[i].callId = c
                            /\ out'[i].userId = u
                            /\ out'[i].body = "Participant disconnected"]_vars

\* ------------------------------------------------------------- C34
\* C34: a call_initiate sent on a socket that is not the directory's socket
\* for the declared callerId, or is not bound to that id, answers the sender
\* with an error, leaves the registry as it was and changes no presence.
C34_InitiateFromOwnSocketOnly ==
  [][\A s \in Two, c \in One, a, b \in AB :
       (/\ a # b
        /\ (connectedUsers[a] # s \/ sockUser[s] # a)
        /\ CallInitiate(s, c, a, b))
       => /\ \E i \in 1 .. Len(out') :
               out'[i].ev = "error" /\ out'[i].sock = s
          /\ UNCHANGED <<activeCalls, userStatus>>]_vars

\* ------------------------------------------------------------- C35
PresenceValues == {"offline", "available", "ringing", "busy", "in-call"}
CallStatusValues == {"initiated", "active"}

\* C35: every stored presence status is one of PresenceValues and every
\* stored call status, in the registry and in the call-state table, is one of
\* CallStatusValues.
C35_StatusesAreEnumerated ==
  /\ \A u \in Users :
       userStatus[u] # NoStatus => userStatus[u].status \in PresenceValues
  /\ \A c \in CallIds :
       /\ activeCalls[c] # NoCall => activeCalls[c].status \in CallStatusValues
       /\ callStates[c] # NoState => callStates[c].status \in CallStatusValues

\* ------------------------------------------------------------- C36
\* C36: every call of the registry with status initiated has its no-answer
\* timer armed.
C36_InitiatedCallHasTimer ==
  \A c \in CallIds :
    (activeCalls[c] # NoCall /\ activeCalls[c].status = "initiated")
    => callTimeouts[c] # NoTimer

\* ------------------------------------------------------------- C37
\* C37: no user id is among the participants of two distinct calls of the
\* registry.
C37_OneCallPerUser ==
  \A c, d \in CallIds :
    (c # d /\ activeCalls[c] # NoCall /\ activeCalls[d] # NoCall)
    => \A u \in Users :
         ~(Includes(activeCalls[c].participants, u)
           /\ Includes(activeCalls[d].participants, u))

\* ------------------------------------------------------------- C38
\* C38: the registry and the call-state table hold the same call ids, and for
\* each of them the same status, the same callerId and the same receiver.
C38_TablesAgree ==
  \A c \in CallIds :
    /\ activeCalls[c] = NoCall <=> callStates[c] = NoState
    /\ activeCalls[c] # NoCall
       => /\ callStates[c].status = activeCalls[c].status
          /\ callStates[c].callerId = activeCalls[c].callerId
          /\ callStates[c].receiverId = activeCalls[c].receiverId

\* an accepted call that has lost a participant and whose caller is no longer
\* in-call: both tables still hold it as active
C38_ActiveInBothTables ==
  \E c \in CallIds :
    /\ activeCalls[c] # NoCall
    /\ callStates[c] # NoState
    /\ activeCalls[c].status = "active"
    /\ Len(activeCalls[c].participants) = 1
    /\ Presence(activeCalls[c].callerId) # "in-call"

\* ------------------------------------------------------------- C39
\* C39: no event other than force_disconnect is emitted on a socket that is
\* closed when it is emitted; stated for call_timeout, the event of the
\* no-answer timer and of the monitor.
C39_NoEmitOnClosedSocket ==
  \A i \in 1 .. Len(out) :
    out[i].ev = "call_timeout" => out[i].live

\* ------------------------------------------------------------- C40
\* C40: the close of a socket that has never registered a user id changes no
\* table (directory, presence, registry, call states, pending queues, timers)
\* and emits nothing.
C40_CloseOfUnregisteredSocket ==
  [][\A s \in Sockets :
       (sockUser[s] = NoUser /\ Disconnect(s))
       => /\ UNCHANGED <<connectedUsers, userStatus, activeCalls, callStates,
                         pendingSignals, callTimeouts>>
          /\ out' = <<>>]_vars
====
